---- MODULE Spec2Model ----
(***************************************************************************)
(* A model of petroflow's batch layer:                                     *)
(*   - WellDelegatingMeta / WellBatch   (well_logs/core/well_batch.py)     *)
(*   - CoreBatch crop / random_crop / shuffle_images                       *)
(*                                      (well_logs/core/core_images.py)    *)
(* The dispatcher (batchflow's inbatch_parallel), the index (DatasetIndex) *)
(* and Batch.get_pos live in the batchflow sub-package, which is imported  *)
(* by both files; they are modelled from the specification's section 4.1.  *)
(***************************************************************************)
EXTENDS Integers, Sequences, FiniteSets, TLC

\* ------------------------------------------------------------------ bounds
NumKeys == 2          \* number of distinct item keys
MaxArgs == 2          \* longest src / dst list handed to get_crops
MaxBases == 2         \* number of bases of a newly created type
MaxImageLength == 4   \* longest image along the cropped axis
MaxStep == 3          \* largest crop step
MaxCrops == 2         \* largest n_crops of random_crop
MaxItems == 3         \* largest CoreBatch handed to shuffle_images

Keys == 1..NumKeys

\* ------------------------------------------------------------ value domain
\* Component entries and per-item results are tagged values; the tag stands
\* for the Python type that isinstance() inspects.
NoneVal == [tag |-> "None", val |-> 0]
WellVal(v) == [tag |-> "Well", val |-> v]
SkipWellException == [tag |-> "SkipWellException", val |-> 0]
Failure == [tag |-> "Exception", val |-> 0]
Pending == [tag |-> "pending", val |-> 0]

WorkerVals == {WellVal(v) : v \in Keys}

\* What a worker operation can do to worker w: return it (Well operations
\* return the well they were applied to, which is why the batch can store
\* the results as its new wells), signal skip, or raise.
OutcomesOf(w) == {w, SkipWellException, Failure}

IsSkip(res) == res.tag = "SkipWellException"
IsException(res) == res.tag \in {"SkipWellException", "Exception"}

Range(s) == {s[i] : i \in DOMAIN s}

\* All duplicate-free key sequences (a DatasetIndex holds unique keys).
Indices == {s \in UNION {[1..n -> Keys] : n \in 0..NumKeys} :
              \A i, j \in DOMAIN s : s[i] = s[j] => i = j}

\* ---------------------------------------------------------- type creation
CapNames == {"drop_nans", "keep_logs"}
OtherNames == {"get_crops"}
Names == CapNames \cup OtherNames
TypeNames == {"WellBatch", "OtherBatch"}
Modes == {"threads", "for"}

Unbound == [kind |-> "absent", init |-> "", post |-> "", target |-> ""]
OwnDef == [kind |-> "own", init |-> "", post |-> "", target |-> ""]

\* action()(inbatch_parallel(init="indices", post="_filter_assemble",
\*                           target=target)(delegator))
make_parallel_action(name, target) ==
    [kind |-> "delegator", init |-> "indices", post |-> "_filter_assemble",
     target |-> target]

\* dict.get(key, default)
DictGet(d, key, default) == IF key \in DOMAIN d THEN d[key] ELSE default

\* abstract_methods: the union of __abstractmethods__ over the bases that
\* have the attribute.
AbstractMethods(bases) ==
    UNION {bases[i].abs : i \in {j \in DOMAIN bases : bases[j].has}}

\* __new__ generating a wrapper for every contract operation, overridden or
\* not.
MetaNew_clobber(cls) ==
    LET abstract_methods == AbstractMethods(cls.bases)
    IN  IF abstract_methods # {} /\ ~cls.hasTargets
        THEN [raised |-> "KeyError", ns |-> [n \in Names |-> Unbound]]
        ELSE [raised |-> "none",
              ns |-> [n \in Names |->
                        IF n \in abstract_methods
                        THEN make_parallel_action(n,
                                 DictGet(cls.targets, cls.name, "threads"))
                        ELSE IF n \in cls.own THEN OwnDef
                        ELSE Unbound]]

\* WellDelegatingMeta.__new__.  cls = [name, bases, own, hasTargets, targets]:
\* own is the set of names of the class body (the namespace), hasTargets
\* tells whether the body assigns `targets`.  namespace['targets'] raises
\* KeyError when a wrapper is needed and the body has no `targets`.
MetaNew(cls) ==
    LET abstract_methods == AbstractMethods(cls.bases)
        missing == {m \in abstract_methods : m \notin cls.own}
    IN  IF missing # {} /\ ~cls.hasTargets
        THEN [raised |-> "KeyError", ns |-> [n \in Names |-> Unbound]]
        ELSE [raised |-> "none",
              ns |-> [n \in Names |->
                        IF n \in cls.own THEN OwnDef
                        ELSE IF n \in abstract_methods
                        THEN make_parallel_action(n,
                                 DictGet(cls.targets, cls.name, "threads"))
                        ELSE Unbound]]

TargetMaps == UNION {[S -> Modes] : S \in SUBSET TypeNames}
EmptyMap == [x \in {} |-> "threads"]
BatchBase == [has |-> FALSE, abs |-> {}]
BaseDecls == {BatchBase} \cup [has : {TRUE}, abs : SUBSET CapNames]
ClassDefs == {c \in [name : TypeNames,
                     bases : [1..MaxBases -> BaseDecls],
                     own : SUBSET Names,
                     hasTargets : BOOLEAN,
                     targets : TargetMaps] :
                ~c.hasTargets => c.targets = EmptyMap}

\* WellBatch as the source declares it (bases Batch and AbstractWell, body
\* defining get_crops and targets), with the content of the targets mapping
\* left open.
AbstractWell == [has |-> TRUE, abs |-> CapNames]
WellBatchDefs ==
    {[name |-> "WellBatch", bases |-> <<BatchBase, AbstractWell>>,
      own |-> {"get_crops"}, hasTargets |-> TRUE, targets |-> t] :
        t \in {EmptyMap, [x \in {"WellBatch"} |-> "for"]}}

\* ------------------------------------------------------------- components
Attrs == {"logs", "mask"}
DstNames == {"crops", "masks"}
NoComp == [set |-> FALSE, data |-> <<>>]

\* [getattr(segment, attr) for segment in well.iter_level()] of one well
CropOf(attr, well) == [attr |-> attr, of |-> well.val]

VARIABLES
    namespace,    \* the batch type's bound operations
    index,        \* self.index: the key sequence
    wells,        \* self.wells
    comps,        \* components written by get_crops, by name
    phase,        \* "new", "running", "idle", "dead"
    call,         \* the operation in progress or last finished
    taskKeys,     \* the keys the dispatch fans out over (init="indices")
    futures,      \* per task: Pending or the task's outcome
    opTable,      \* Well.<name>(worker, *args) for the current call
    ctor,         \* per key: what Well(path) does
    srcMode,      \* how _init_wells finds the path
    outcome,      \* how the last call ended
    pre,          \* index / wells / comps when the last call started
    results,      \* the list handed to the post step
    invoked,      \* per task: the wells position the delegator read
    overtaken,    \* a task finished while an earlier one was pending
    writes,       \* (dst, src) pairs get_crops wrote, in order
    indexObjs,    \* the index objects alive, by identity: their key sequences
    indexRef,     \* the identity of the object self.index refers to
    heldRef,      \* the identity a reader took from self.index at call start;
                  \* an object neither the batch nor the reader refers to is
                  \* gone, its slot empty
    metaIn,       \* type creation: the class statement
    metaOut,      \* type creation: what __new__ produced
    metaDone,     \* type creation: __new__ has run
    cLen,         \* crop: the lengths of the item's dl and uv images
    cLength,      \* crop: the window length
    cStep,        \* crop: the step
    cPos,         \* crop: the offsets computed
    cOut,         \* crop: per source component, the windows returned
    cDone,        \* crop: the task has run
    cKind,        \* which operation ran: "crop" or "random_crop"
    cNCrops,      \* random_crop: n_crops
    cRaised,      \* what the task raised, "none" if it returned
    sIndex,       \* shuffle_images: the CoreBatch's key sequence
    sDl,          \* shuffle_images: the dl component
    sUv,          \* shuffle_images: the uv component
    sLabels,      \* shuffle_images: the labels component
    sProba,       \* shuffle_images: proba, in quarters
    sPairs,       \* shuffle_images: the (i, j) pairs the loop went over
    sPre,         \* shuffle_images: index / dl / uv / labels before the call
    sDone         \* shuffle_images: the call has returned

wellVars == <<namespace, index, wells, comps, phase, call, taskKeys, futures,
              opTable, ctor, srcMode, outcome, pre, results, invoked,
              overtaken, writes, indexObjs, indexRef, heldRef>>
metaVars == <<metaIn, metaOut, metaDone>>
coreVars == <<cLen, cLength, cStep, cPos, cOut, cDone, cKind, cNCrops,
              cRaised>>
shufVars == <<sIndex, sDl, sUv, sLabels, sProba, sPairs, sPre, sDone>>
vars == <<wellVars, metaVars, coreVars, shufVars>>

\* -------------------------------------------------------- index / get_pos
\* DatasetIndex.get_pos: the position of a key in the index.
get_pos(idx, key) == CHOOSE i \in DOMAIN idx : idx[i] = key

\* Boolean-mask indexing arr[mask]: the entries where mask is true, in order.
RECURSIVE MaskSelect(_, _)
MaskSelect(arr, mask) ==
    IF arr = <<>> THEN <<>>
    ELSE LET rest == MaskSelect(Tail(arr), Tail(mask))
         IN  IF Head(mask) THEN <<Head(arr)>> \o rest ELSE rest

\* DatasetIndex.create_subset: a new index holding the given keys.
create_subset(keys) == keys

any_action_failed(res) == \E i \in DOMAIN res : IsException(res[i])


\* ----------------------------------------------------- WellBatch: workers
\* The body of WellBatch._init_wells for one key: resolve the path, build
\* the Well, store it into self.wells.  mode "none": neither src nor a
\* FilesIndex, ValueError.  ct is what Well(path) does for this key.
init_wells(idx, wls, key, mode, ct) ==
    IF mode = "none" THEN [wells |-> wls, result |-> Failure]
    ELSE IF ct = "skip" THEN [wells |-> wls, result |-> SkipWellException]
    ELSE IF ct = "fail" THEN [wells |-> wls, result |-> Failure]
    ELSE [wells |-> [wls EXCEPT ![get_pos(idx, key)] = WellVal(key)],
          result |-> NoneVal]

\* The delegator reading the wells from the far end.
delegator_reversed(idx, wls, key, table) ==
    LET pos == Len(idx) + 1 - get_pos(idx, key)
    IN  [pos |-> pos, result |-> table[wls[pos]]]

\* The delegator ignoring the key and reading the first well.
delegator_first(idx, wls, key, table) ==
    [pos |-> 1, result |-> table[wls[1]]]

\* The delegator synthesized by _make_parallel_action, for one key:
\* getattr(Well, name)(self.wells[self.get_pos(None, "wells", index)], ...)
delegator(idx, wls, key, table) ==
    LET pos == get_pos(idx, key)
    IN  [pos |-> pos, result |-> table[wls[pos]]]

\* _filter_assemble storing the unfiltered results.
filter_assemble_unmasked(idx, wls, res) ==
    LET skip_mask == [i \in DOMAIN res |-> IsSkip(res[i])]
        keep_mask == [i \in DOMAIN res |-> ~skip_mask[i]]
        kept == MaskSelect(res, keep_mask)
    IN  IF Cardinality({i \in DOMAIN res : skip_mask[i]}) = Len(idx)
        THEN [raised |-> "SkipBatchException", index |-> idx, wells |-> wls]
        ELSE IF any_action_failed(kept)
        THEN [raised |-> "RuntimeError", index |-> idx, wells |-> wls]
        ELSE [raised |-> "none",
              index |-> create_subset(MaskSelect(idx, keep_mask)),
              wells |-> res]

\* _filter_assemble without the all-skipped test.
filter_assemble_noempty(idx, wls, res) ==
    LET skip_mask == [i \in DOMAIN res |-> IsSkip(res[i])]
        keep_mask == [i \in DOMAIN res |-> ~skip_mask[i]]
        kept == MaskSelect(res, keep_mask)
    IN  IF any_action_failed(kept)
        THEN [raised |-> "RuntimeError", index |-> idx, wells |-> wls]
        ELSE [raised |-> "none",
              index |-> create_subset(MaskSelect(idx, keep_mask)),
              wells |-> kept]

\* WellBatch._filter_assemble
filter_assemble(idx, wls, res) ==
    LET skip_mask == [i \in DOMAIN res |-> IsSkip(res[i])]
        keep_mask == [i \in DOMAIN res |-> ~skip_mask[i]]
        kept == MaskSelect(res, keep_mask)
    IN  IF Cardinality({i \in DOMAIN res : skip_mask[i]}) = Len(idx)
        THEN [raised |-> "SkipBatchException", index |-> idx, wells |-> wls]
        ELSE IF any_action_failed(kept)
        THEN [raised |-> "RuntimeError", index |-> idx, wells |-> wls]
        ELSE [raised |-> "none",
              index |-> create_subset(MaskSelect(idx, keep_mask)),
              wells |-> kept]

\* The two index objects that can be referred to at once: the one self.index
\* is bound to and the one a reader still holds from before the assembly.
ObjIds == {1, 2}

\* self.index = <a subset index> storing the kept keys into the object the
\* batch already refers to.
assign_index_inplace(objs, ref, keys) ==
    [objs |-> [objs EXCEPT ![ref] = keys], ref |-> ref]

\* self.index = self.index.create_subset(...): create_subset builds a new
\* index object (here in the slot nobody refers to) and the attribute is
\* rebound to it; the object it was bound to is left as it is.
assign_index(objs, ref, keys) ==
    LET new == CHOOSE o \in ObjIds : o # ref
    IN  [objs |-> [objs EXCEPT ![new] = keys], ref |-> new]

\* The loop of WellBatch.get_crops over zip(src, dst), from pair k on: zip
\* stops at the shorter list.  acc holds the components and the writes done.
RECURSIVE CropLoop(_, _, _, _, _)
CropLoop(wls, acc, src, dst, k) ==
    IF k > Len(src) \/ k > Len(dst) THEN acc
    ELSE LET crops == [i \in DOMAIN wls |-> CropOf(src[k], wls[i])]
         IN  CropLoop(wls,
                      [comps |-> [acc.comps EXCEPT ![dst[k]] =
                                     [set |-> TRUE, data |-> crops]],
                       writes |-> Append(acc.writes, <<dst[k], src[k]>>)],
                      src, dst, k + 1)

\* get_crops without the length test: zip drops the unpaired entries.
get_crops_nocheck(wls, cmps, src, dst) ==
    LET r == CropLoop(wls, [comps |-> cmps, writes |-> <<>>], src, dst, 1)
    IN  [raised |-> "none", comps |-> r.comps, writes |-> r.writes]

\* WellBatch.get_crops (src and dst after to_list, which wraps a bare
\* string into a one-element list)
get_crops(wls, cmps, src, dst) ==
    IF Len(src) # Len(dst)
    THEN [raised |-> "ValueError", comps |-> cmps, writes |-> <<>>]
    ELSE LET r == CropLoop(wls, [comps |-> cmps, writes |-> <<>>], src, dst, 1)
         IN  [raised |-> "none", comps |-> r.comps, writes |-> r.writes]

\* ------------------------------------------------------- CoreBatch.crop
\* An image along the cropped axis (shape[-2]): row r holds r.
Image(n) == [r \in 1..n |-> r]

Min(a, b) == IF a < b THEN a ELSE b

\* np.arange(start, stop, step) for integers, step >= 1
RECURSIVE Arange(_, _, _)
Arange(start, stop, step) ==
    IF start >= stop THEN <<>>
    ELSE <<start>> \o Arange(start + step, stop, step)

\* The offsets with the end of the range left out.
crop_pos_exclusive(image_length, length, step) ==
    Arange(0, image_length - length, step)

\* pos = np.arange(0, image_length - length + 1, step)
crop_pos(image_length, length, step) ==
    Arange(0, image_length - length + 1, step)

\* img[slice(position, position + length)] along the cropped axis; a slice
\* is clipped to the image.
Window(img, position, length) ==
    SubSeq(img, position + 1, Min(position + length, Len(img)))

\* The body of CoreBatch.crop for one item whose dl and uv images have the
\* lengths lens[1], lens[2].  slices = [[slice(None)] * ndim] * len(pos)
\* repeats one inner list len(pos) times, so every slices[j] is the list the
\* loop last wrote: after the loop each of them cuts at the last offset.
crop(lens, length, step) ==
    LET images == [c \in 1..2 |-> Image(lens[c])]
        image_length == Min(lens[1], lens[2])
        pos == crop_pos(image_length, length, step)
        slices == [j \in DOMAIN pos |-> pos[Len(pos)]]
    IN  [pos |-> pos,
         out |-> [c \in 1..2 |->
                    [j \in DOMAIN slices |->
                        Window(images[c], slices[j], length)]]]

\* ------------------------------------------------- CoreBatch.random_crop
\* The values np.random.randint(low, high) can return: low <= v < high.
randint(low, high) == low..(high - 1)

\* The upper end with the window length forgotten.
random_crop_high_nolength(image_length, length) == image_length + 1

\* The (exclusive) upper end of the offsets: image_length - length + 1
random_crop_high(image_length, length) == image_length - length + 1

\* The body of CoreBatch.random_crop for one item, after pos was drawn.
\* slices = [[slice(None)] * ndim] * n_crops repeats one inner list, as in
\* crop: after the loop every slices[j] cuts at the last offset drawn.
random_crop(lens, length, pos) ==
    LET images == [c \in 1..2 |-> Image(lens[c])]
        slices == [j \in DOMAIN pos |-> pos[Len(pos)]]
    IN  [c \in 1..2 |->
           [j \in DOMAIN slices |-> Window(images[c], slices[j], length)]]

\* ------------------------------------------------------------- dispatcher
\* ---------------------------------------------------------- shuffle_images
ItemKeys == 1..MaxItems

\* The index of a CoreBatch: distinct keys, in any order.
ItemIndices == {s \in UNION {[1..n -> ItemKeys] : n \in 0..MaxItems} :
                   \A i, j \in DOMAIN s : i # j => s[i] # s[j]}

\* The image of a key in a component: dl and uv are 1-D arrays of image
\* objects, so reading a position yields the object itself.
ImageOf(comp, key) == [comp |-> comp, of |-> key]

\* int(np.ceil(len(self.indices) * proba / 2)), proba = q / 4
n_permutations(len, q) == (len * q + 7) \div 8

\* np.random.choice(self.indices, n, replace=False): n distinct keys
choice(keys, n) == {s \in [1..n -> Range(keys)] :
                       \A i, j \in DOMAIN s : i # j => s[i] # s[j]}

\* zip(a, b) stops at the shorter sequence.
zip(a, b) == [k \in 1..Min(Len(a), Len(b)) |-> <<a[k], b[k]>>]

\* The loop body writing uv2 to both positions.
swap_step_overwrite(idx, st, i, j) ==
    IF i # j
    THEN LET uv2 == st.uv[get_pos(idx, j)]
         IN  [uv |-> [st.uv EXCEPT ![get_pos(idx, i)] = uv2,
                                   ![get_pos(idx, j)] = uv2],
              labels |-> [st.labels EXCEPT ![get_pos(idx, i)] = 1,
                                           ![get_pos(idx, j)] = 1]]
    ELSE st

\* The loop body without the i != j test.
swap_step_always(idx, st, i, j) ==
    LET uv1 == st.uv[get_pos(idx, i)]
        uv2 == st.uv[get_pos(idx, j)]
    IN  [uv |-> [[st.uv EXCEPT ![get_pos(idx, i)] = uv2]
                        EXCEPT ![get_pos(idx, j)] = uv1],
         labels |-> [st.labels EXCEPT ![get_pos(idx, i)] = 1,
                                      ![get_pos(idx, j)] = 1]]

\* The body of the loop of shuffle_images for one pair (i, j): both uv
\* values are read, then written crosswise, then both labels are set to 1.
swap_step(idx, st, i, j) ==
    IF i # j
    THEN LET uv1 == st.uv[get_pos(idx, i)]
             uv2 == st.uv[get_pos(idx, j)]
         IN  [uv |-> [[st.uv EXCEPT ![get_pos(idx, i)] = uv2]
                             EXCEPT ![get_pos(idx, j)] = uv1],
              labels |-> [[st.labels EXCEPT ![get_pos(idx, i)] = 1]
                                     EXCEPT ![get_pos(idx, j)] = 1]]
    ELSE st

\* The loop of shuffle_images over the pairs, from pair k on.
RECURSIVE ShuffleLoop(_, _, _, _)
ShuffleLoop(idx, st, pairs, k) ==
    IF k > Len(pairs)
    THEN st
    ELSE ShuffleLoop(idx, swap_step(idx, st, pairs[k][1], pairs[k][2]),
                     pairs, k + 1)

\* CoreBatch.shuffle_images with src = dst = components: the setattr loop
\* rebinds every component to itself; shuffled is what np.random.choice drew.
shuffle_images(idx, dl, uv, labels, q, shuffled) ==
    LET n == n_permutations(Len(idx), q)
        pairs == zip(SubSeq(idx, 1, n), shuffled)
        st == ShuffleLoop(idx, [uv |-> uv, labels |-> labels], pairs, 1)
    IN  [pairs |-> pairs, dl |-> dl, uv |-> st.uv, labels |-> st.labels]

AllDone(fs) == \A i \in DOMAIN fs : fs[i] # Pending
Lowest(fs) == CHOOSE i \in DOMAIN fs :
                 fs[i] = Pending /\ \A j \in DOMAIN fs : fs[j] = Pending => i <= j

\* With no post step the dispatcher raises RuntimeError when any task's
\* result is an exception, and returns the batch otherwise.
no_post(res) == IF any_action_failed(res) THEN "RuntimeError" ELSE "none"

Snapshot == [index |-> index, wells |-> wells, comps |-> comps]
NoCall == [kind |-> "none", name |-> "", target |-> "", src |-> <<>>,
           dst |-> <<>>]
NoTable == [w \in {} |-> Failure]

MetaIdle ==
    /\ metaIn = [name |-> "WellBatch", bases |-> [i \in 1..MaxBases |-> BatchBase],
                 own |-> {}, hasTargets |-> FALSE, targets |-> EmptyMap]
    /\ metaOut = [raised |-> "none", ns |-> [n \in Names |-> Unbound]]
    /\ metaDone = TRUE

CoreIdle ==
    /\ cLen = <<1, 1>>
    /\ cLength = 1
    /\ cStep = 1
    /\ cPos = <<>>
    /\ cOut = <<<<>>, <<>>>>
    /\ cDone = TRUE
    /\ cKind = "none"
    /\ cNCrops = 1
    /\ cRaised = "none"

ShufIdle ==
    /\ sIndex = <<>>
    /\ sDl = <<>>
    /\ sUv = <<>>
    /\ sLabels = <<>>
    /\ sProba = 0
    /\ sPairs = <<>>
    /\ sPre = [index |-> <<>>, dl |-> <<>>, uv |-> <<>>, labels |-> <<>>]
    /\ sDone = TRUE

WellIdle ==
    /\ index = <<>>
    /\ wells = <<>>
    /\ comps = [d \in DstNames |-> NoComp]
    /\ phase = "new"
    /\ call = NoCall
    /\ taskKeys = <<>>
    /\ futures = <<>>
    /\ opTable = NoTable
    /\ ctor = [k \in Keys |-> "ok"]
    /\ srcMode = "src"
    /\ outcome = "none"
    /\ pre = [index |-> <<>>, wells |-> <<>>,
              comps |-> [d \in DstNames |-> NoComp]]
    /\ results = <<>>
    /\ invoked = <<>>
    /\ overtaken = FALSE
    /\ writes = <<>>
    /\ indexObjs = [o \in ObjIds |-> <<>>]
    /\ indexRef = 1
    /\ heldRef = 1

\* The type exists (the class statement has run); no batch is built yet.
Init ==
    /\ \E cls \in WellBatchDefs : namespace = MetaNew(cls).ns
    /\ WellIdle
    /\ MetaIdle
    /\ CoreIdle
    /\ ShufIdle

\* WellBatch.__init__ with preloaded data: the well of each key is read off
\* preloaded[0].
ConstructPreloaded ==
    /\ phase = "new"
    /\ \E idx \in Indices :
        /\ index' = idx
        /\ wells' = [i \in DOMAIN idx |-> WellVal(idx[i])]
        /\ pre' = [index |-> idx, wells |-> <<>>, comps |-> comps]
        /\ indexObjs' = [o \in ObjIds |-> IF o = 1 THEN idx ELSE <<>>]
    /\ indexRef' = 1
    /\ heldRef' = 1
    /\ phase' = "idle"
    /\ call' = [NoCall EXCEPT !.kind = "preloaded", !.name = "__init__"]
    /\ outcome' = "ok"
    /\ UNCHANGED <<metaVars, coreVars, shufVars, namespace, overtaken, comps, taskKeys, futures, opTable, ctor, srcMode,
                   results, invoked, writes>>

\* WellBatch.__init__ without preloaded data: wells = [None] * len(index),
\* then the _init_wells dispatch (init="indices", target="threads", no post)
\* submits one task per key.
ConstructStart ==
    /\ phase = "new"
    /\ \E idx \in Indices, m \in {"src", "files", "none"},
          ct \in [Keys -> {"ok", "skip", "fail"}] :
        /\ \A k \in Keys \ Range(idx) : ct[k] = "ok"
        /\ index' = idx
        /\ wells' = [i \in DOMAIN idx |-> NoneVal]
        /\ pre' = [index |-> idx, wells |-> [i \in DOMAIN idx |-> NoneVal],
                   comps |-> comps]
        /\ taskKeys' = idx
        /\ futures' = [i \in DOMAIN idx |-> Pending]
        /\ invoked' = [i \in DOMAIN idx |-> 0]
        /\ srcMode' = m
        /\ ctor' = ct
        /\ indexObjs' = [o \in ObjIds |-> IF o = 1 THEN idx ELSE <<>>]
    /\ indexRef' = 1
    /\ heldRef' = 1
    /\ phase' = "running"
    /\ call' = [NoCall EXCEPT !.kind = "init", !.name = "_init_wells",
                              !.target = "threads"]
    /\ outcome' = "none"
    /\ results' = <<>>
    /\ overtaken' = FALSE
    /\ UNCHANGED <<metaVars, coreVars, shufVars, namespace, comps, opTable, writes>>

\* A batch-level call of a synthesized operation: the dispatcher submits one
\* delegator task per key of self.indices.  The table is what the worker
\* operation of that name does, with the call's arguments, to each worker.
CallDelegated ==
    /\ phase = "idle"
    /\ \E name \in CapNames :
        /\ namespace[name].kind = "delegator"
        /\ call' = [NoCall EXCEPT !.kind = "delegated", !.name = name,
                                  !.target = namespace[name].target]
    /\ \E table \in [Range(wells) -> UNION {OutcomesOf(w) : w \in Range(wells)}] :
        /\ \A w \in Range(wells) : table[w] \in OutcomesOf(w)
        /\ opTable' = table
    /\ pre' = Snapshot
    /\ taskKeys' = index
    /\ futures' = [i \in DOMAIN index |-> Pending]
    /\ phase' = "running"
    /\ outcome' = "none"
    /\ results' = <<>>
    /\ invoked' = [i \in DOMAIN index |-> 0]
    /\ writes' = <<>>
    /\ overtaken' = FALSE
    /\ heldRef' = indexRef
    /\ indexObjs' = [o \in ObjIds |-> IF o = indexRef THEN indexObjs[o] ELSE <<>>]
    /\ UNCHANGED <<metaVars, coreVars, shufVars, namespace, index, wells, comps, ctor, srcMode,
                   indexRef>>

\* A task may run when it is pending; "for" runs the tasks one after the
\* other in submission order, "threads" in any order.
MayRun(i) ==
    /\ phase = "running"
    /\ i \in DOMAIN futures
    /\ futures[i] = Pending
    /\ call.target = "for" => i = Lowest(futures)

\* One _init_wells task runs to completion; its exception, if any, is
\* captured into its future.
TaskInit ==
    \E i \in DOMAIN futures :
        /\ MayRun(i)
        /\ call.kind = "init"
        /\ LET r == init_wells(index, wells, taskKeys[i], srcMode,
                               ctor[taskKeys[i]])
           IN  /\ wells' = r.wells
               /\ futures' = [futures EXCEPT ![i] = r.result]
        /\ overtaken' = (overtaken \/ \E j \in 1..(i - 1) : futures[j] = Pending)
        /\ UNCHANGED <<metaVars, coreVars, shufVars, namespace, index, comps, phase, call, taskKeys, opTable,
                       ctor, srcMode, outcome, pre, results, invoked, writes,
                       indexObjs, indexRef, heldRef>>

\* One delegator task runs to completion.
TaskDelegated ==
    \E i \in DOMAIN futures :
        /\ MayRun(i)
        /\ call.kind = "delegated"
        /\ LET r == delegator(index, wells, taskKeys[i], opTable)
           IN  /\ futures' = [futures EXCEPT ![i] = r.result]
               /\ invoked' = [invoked EXCEPT ![i] = r.pos]
        /\ overtaken' = (overtaken \/ \E j \in 1..(i - 1) : futures[j] = Pending)
        /\ UNCHANGED <<metaVars, coreVars, shufVars, namespace, index, wells, comps, phase, call, taskKeys,
                       opTable, ctor, srcMode, outcome, pre, results, writes,
                       indexObjs, indexRef, heldRef>>

\* All tasks of the _init_wells dispatch are done and there is no post step;
\* when the dispatcher raises, __init__ does not return a batch.
PostInit ==
    /\ phase = "running"
    /\ call.kind = "init"
    /\ AllDone(futures)
    /\ results' = futures
    /\ IF no_post(futures) = "none"
       THEN outcome' = "ok" /\ phase' = "idle"
       ELSE outcome' = no_post(futures) /\ phase' = "dead"
    /\ UNCHANGED <<metaVars, coreVars, shufVars, namespace, overtaken, index, wells, comps, call, taskKeys, futures,
                   opTable, ctor, srcMode, pre, invoked, writes,
                   indexObjs, indexRef, heldRef>>

\* All delegator tasks are done; the results go to _filter_assemble.
PostDelegated ==
    /\ phase = "running"
    /\ call.kind = "delegated"
    /\ AllDone(futures)
    /\ results' = futures
    /\ LET r == filter_assemble(index, wells, futures)
           a == IF r.raised = "none"
                THEN assign_index(indexObjs, indexRef, r.index)
                ELSE [objs |-> indexObjs, ref |-> indexRef]
       IN  /\ index' = r.index
           /\ wells' = r.wells
           /\ indexObjs' = a.objs
           /\ indexRef' = a.ref
           /\ outcome' = IF r.raised = "none" THEN "ok" ELSE r.raised
    /\ phase' = "idle"
    /\ UNCHANGED <<metaVars, coreVars, shufVars, namespace, overtaken, comps, call, taskKeys, futures, opTable, ctor,
                   srcMode, pre, invoked, writes, heldRef>>

ArgLists(S) == UNION {[1..n -> S] : n \in 1..MaxArgs}

\* batch.get_crops(src, dst), dst naming components out of dsts
GetCropsInto(dsts) ==
    /\ phase = "idle"
    /\ namespace["get_crops"].kind = "own"
    /\ \E src \in ArgLists(Attrs), dst \in ArgLists(dsts) :
        LET r == get_crops(wells, comps, src, dst)
        IN  /\ comps' = r.comps
            /\ writes' = r.writes
            /\ outcome' = IF r.raised = "none" THEN "ok" ELSE r.raised
            /\ call' = [NoCall EXCEPT !.kind = "get_crops", !.name = "get_crops",
                                      !.src = src, !.dst = dst]
    /\ pre' = Snapshot
    /\ taskKeys' = <<>>
    /\ futures' = <<>>
    /\ opTable' = NoTable
    /\ results' = <<>>
    /\ invoked' = <<>>
    /\ overtaken' = FALSE
    /\ heldRef' = indexRef
    /\ indexObjs' = [o \in ObjIds |-> IF o = indexRef THEN indexObjs[o] ELSE <<>>]
    /\ UNCHANGED <<metaVars, coreVars, shufVars, namespace, index, wells, phase, ctor, srcMode,
                   indexRef>>

GetCrops == GetCropsInto({"crops"})

GetCropsAll == GetCropsInto(DstNames)

Next ==
    \/ ConstructPreloaded
    \/ ConstructStart
    \/ CallDelegated
    \/ TaskInit
    \/ TaskDelegated
    \/ PostInit
    \/ PostDelegated
    \/ GetCrops

Spec == Init /\ [][Next]_vars

\* ------------------------------------------ get_crops with all its lists
\* The batch type is WellBatch as the source declares it.
InitCrops ==
    /\ namespace = MetaNew([name |-> "WellBatch",
                            bases |-> <<BatchBase, AbstractWell>>,
                            own |-> {"get_crops"}, hasTargets |-> TRUE,
                            targets |-> EmptyMap]).ns
    /\ WellIdle
    /\ MetaIdle
    /\ CoreIdle
    /\ ShufIdle

NextCrops ==
    \/ ConstructPreloaded
    \/ GetCropsAll

SpecCrops == InitCrops /\ [][NextCrops]_vars

\* ----------------------------------------------------- creating a type
InitMeta ==
    /\ namespace = [n \in Names |-> Unbound]
    /\ WellIdle
    /\ CoreIdle
    /\ ShufIdle
    /\ metaIn \in ClassDefs
    /\ metaOut = [raised |-> "none", ns |-> [n \in Names |-> Unbound]]
    /\ metaDone = FALSE

\* The class statement runs WellDelegatingMeta.__new__.
CreateType ==
    /\ ~metaDone
    /\ metaOut' = MetaNew(metaIn)
    /\ metaDone' = TRUE
    /\ UNCHANGED <<metaIn, wellVars, coreVars, shufVars>>

NextMeta == CreateType

SpecMeta == InitMeta /\ [][NextMeta]_vars

\* --------------------------------------------------- cropping one item
InitCore ==
    /\ namespace = [n \in Names |-> Unbound]
    /\ WellIdle
    /\ MetaIdle
    /\ ShufIdle
    /\ cLen \in (1..MaxImageLength) \X (1..MaxImageLength)
    /\ cLength \in 1..MaxImageLength
    /\ cStep \in 1..MaxStep
    /\ cPos = <<>>
    /\ cOut = <<<<>>, <<>>>>
    /\ cDone = FALSE
    /\ cKind = "none"
    /\ cNCrops \in 1..MaxCrops
    /\ cRaised = "none"

\* One task of the crop dispatch, for one item.
Crop ==
    /\ ~cDone
    /\ LET r == crop(cLen, cLength, cStep)
       IN  cPos' = r.pos /\ cOut' = r.out
    /\ cDone' = TRUE
    /\ cKind' = "crop"
    /\ UNCHANGED <<cLen, cLength, cStep, cNCrops, cRaised, wellVars, metaVars, shufVars>>

\* One task of the random_crop dispatch, for one item.  The offsets are
\* whatever np.random.randint draws; randint raises ValueError when its
\* range is empty.
RandomCrop ==
    /\ ~cDone
    /\ LET high == random_crop_high(Min(cLen[1], cLen[2]), cLength)
       IN  IF randint(0, high) = {}
           THEN cRaised' = "ValueError" /\ UNCHANGED <<cPos, cOut>>
           ELSE /\ \E pos \in [1..cNCrops -> randint(0, high)] :
                    /\ cPos' = pos
                    /\ cOut' = random_crop(cLen, cLength, pos)
                /\ UNCHANGED cRaised
    /\ cDone' = TRUE
    /\ cKind' = "random_crop"
    /\ UNCHANGED <<cLen, cLength, cStep, cNCrops, wellVars, metaVars, shufVars>>

NextCore ==
    \/ Crop
    \/ RandomCrop

SpecCore == InitCore /\ [][NextCore]_vars

\* ---------------------------------------------------------- SpecShuffle
\* A loaded CoreBatch: dl and uv hold one image per key, labels are 0 or 1.
InitShuffle ==
    /\ namespace = [n \in Names |-> Unbound]
    /\ WellIdle
    /\ MetaIdle
    /\ CoreIdle
    /\ sIndex \in ItemIndices
    /\ sDl = [p \in DOMAIN sIndex |-> ImageOf("dl", sIndex[p])]
    /\ sUv = [p \in DOMAIN sIndex |-> ImageOf("uv", sIndex[p])]
    /\ sLabels \in [DOMAIN sIndex -> {0, 1}]
    /\ sProba \in 0..4
    /\ sPairs = <<>>
    /\ sPre = [index |-> sIndex, dl |-> sDl, uv |-> sUv, labels |-> sLabels]
    /\ sDone = FALSE

\* batch.shuffle_images(proba): one call, run by the calling thread.
ShuffleImages ==
    /\ ~sDone
    /\ \E shuffled \in choice(sIndex, n_permutations(Len(sIndex), sProba)) :
        LET r == shuffle_images(sIndex, sDl, sUv, sLabels, sProba, shuffled)
        IN  /\ sPairs' = r.pairs
            /\ sDl' = r.dl
            /\ sUv' = r.uv
            /\ sLabels' = r.labels
    /\ sPre' = [index |-> sIndex, dl |-> sDl, uv |-> sUv, labels |-> sLabels]
    /\ sDone' = TRUE
    /\ UNCHANGED <<sIndex, sProba, wellVars, metaVars, coreVars>>

NextShuffle == ShuffleImages

SpecShuffle == InitShuffle /\ [][NextShuffle]_vars

\* ================================================================ claims
DelegatedDone == phase = "idle" /\ call.kind = "delegated"

\* The positions of the results that are not skip signals.
KeepSet == {i \in DOMAIN results : ~IsSkip(results[i])}

\* The position of the j-th such result.
KeptAt(j) == CHOOSE i \in KeepSet : Cardinality({m \in KeepSet : m < i}) = j - 1

\* C1: filtering assembly.  When the result list holds one entry per index
\* position, at least one entry is not a skip and no non-skip entry is a
\* failure, the call returns, the index holds exactly the keys of the
\* non-skip positions in their original order, wells holds exactly the
\* non-skip results in that order, and no skipped key is left in the index.
C1_FilteringAssembly ==
    (/\ DelegatedDone
     /\ KeepSet # {}
     /\ \A i \in KeepSet : ~IsException(results[i]))
    => /\ outcome = "ok"
       /\ Len(results) = Len(pre.index)
       /\ Len(index) = Cardinality(KeepSet)
       /\ Len(wells) = Cardinality(KeepSet)
       /\ \A j \in 1..Cardinality(KeepSet) :
            /\ index[j] = pre.index[KeptAt(j)]
            /\ wells[j] = results[KeptAt(j)]
       /\ \A i \in DOMAIN results \ KeepSet : pre.index[i] \notin Range(index)

\* A delegated call whose first item skipped and whose second did not.
C1_Witness ==
    /\ DelegatedDone
    /\ outcome = "ok"
    /\ Len(results) >= 2
    /\ IsSkip(results[1])
    /\ ~IsException(results[2])

\* C2: fatal-failure atomicity.  When a dispatch (worker initialization or a
\* delegated operation) has an item that raised without signalling skip, the
\* call raises the hard error and index, wells and every other component are
\* what they were before the call.
C2_FatalAtomicity ==
    (/\ phase \in {"idle", "dead"}
     /\ call.kind \in {"init", "delegated"}
     /\ \E i \in DOMAIN results : results[i].tag = "Exception")
    => /\ outcome = "RuntimeError"
       /\ index = pre.index
       /\ wells = pre.wells
       /\ comps = pre.comps

\* C3: all-skip.  When every result handed to filtering assembly is a skip
\* signal, the call ends with SkipBatchException (not the hard error, not a
\* return) and index and wells are unchanged.
C3_AllSkip ==
    (/\ DelegatedDone
     /\ \A i \in DOMAIN results : IsSkip(results[i]))
    => /\ outcome = "SkipBatchException"
       /\ index = pre.index
       /\ wells = pre.wells

\* A delegated call over two or more items that all skipped.
C3_Witness ==
    /\ DelegatedDone
    /\ Len(results) >= 2
    /\ \A i \in DOMAIN results : IsSkip(results[i])
    /\ outcome = "SkipBatchException"

\* C4: length invariant.  Whenever the batch is at rest, wells and every
\* component written by get_crops are as long as the index, and entry i of a
\* component belongs to key i of the index.
C4_LengthInvariant ==
    phase = "idle"
    => /\ Len(wells) = Len(index)
       /\ \A d \in DstNames :
            comps[d].set
            => /\ Len(comps[d].data) = Len(index)
               /\ \A i \in DOMAIN index : comps[d].data[i].of = index[i]

\* C5: worker initialization.  When the worker of some but not all items
\* signals skip on construction (and none fails otherwise), construction
\* returns a batch whose index holds the keys of the constructed workers in
\* their original order and whose wells holds one worker per remaining key.
C5_InitSkipShrinks ==
    (/\ call.kind = "init"
     /\ phase # "running"
     /\ srcMode # "none"
     /\ \A k \in Range(pre.index) : ctor[k] # "fail"
     /\ \E k \in Range(pre.index) : ctor[k] = "skip"
     /\ \E k \in Range(pre.index) : ctor[k] = "ok")
    => /\ phase = "idle"
       /\ outcome = "ok"
       /\ index = SelectSeq(pre.index, LAMBDA k : ctor[k] = "ok")
       /\ wells = [i \in DOMAIN index |-> WellVal(index[i])]

\* What the operation of the current dispatch yields for the item at
\* position i of the index the dispatch started from.
Expected(i) ==
    IF call.kind = "delegated" THEN opTable[pre.wells[i]]
    ELSE IF srcMode = "none" \/ ctor[pre.index[i]] = "fail" THEN Failure
    ELSE IF ctor[pre.index[i]] = "skip" THEN SkipWellException
    ELSE NoneVal

\* C6: ordering.  In either concurrency mode and whatever the completion
\* order, a dispatch over N items has N result slots, slot i holds the
\* outcome for the key at index position i, the list handed to the post step
\* is that list, and after a delegated call with no skip wells[i] is the
\* result for the key at position i.
C6_Ordering ==
    call.kind \in {"init", "delegated"}
    => /\ Len(futures) = Len(pre.index)
       /\ \A i \in DOMAIN futures :
            futures[i] # Pending => futures[i] = Expected(i)
       /\ phase # "running"
          => results = [i \in DOMAIN pre.index |-> Expected(i)]
       /\ (DelegatedDone /\ outcome = "ok" /\ KeepSet = DOMAIN results)
          => /\ index = pre.index
             /\ wells = [i \in DOMAIN pre.index |-> Expected(i)]

\* A delegated call run by threads in which a later task finished before an
\* earlier one, and whose results were assembled.
C6_Witness ==
    /\ DelegatedDone
    /\ call.target = "threads"
    /\ overtaken
    /\ outcome = "ok"
    /\ KeepSet = DOMAIN results
    /\ Len(results) >= 2
    /\ results[1] # results[2]

\* C7: delegation transparency.  A call of a synthesized operation runs one
\* task per index key, and the task of key k yields what the worker operation
\* yields on the worker stored at k's position of wells; it reads no other
\* position.
C7_DelegationTransparency ==
    call.kind = "delegated"
    => /\ namespace[call.name].kind = "delegator"
       /\ taskKeys = pre.index
       /\ \A i \in DOMAIN futures :
            futures[i] # Pending
            => \A p \in DOMAIN pre.index :
                 pre.index[p] = taskKeys[i]
                 => /\ invoked[i] = p
                    /\ futures[i] = opTable[pre.wells[p]]

\* A finished delegated call over two workers on which the operation yields
\* different outcomes.
C7_Witness ==
    /\ DelegatedDone
    /\ Len(results) >= 2
    /\ results[1] # results[2]
    /\ invoked[2] = 2

\* The capability set of a class statement: the abstract methods of its
\* bases.
CapSetOf(cls) ==
    {n \in Names : \E i \in DOMAIN cls.bases :
                      cls.bases[i].has /\ n \in cls.bases[i].abs}

\* C8: delegation binding.  When a type is created, every capability name
\* the class body defines keeps the body's definition, every other
\* capability name is bound to a synthesized delegating operation, and a name
\* outside the capability set is neither added nor replaced.  Creation
\* succeeds whenever the body assigns targets or needs no wrapper.
C8_DelegationBinding ==
    metaDone
    => /\ (metaIn.hasTargets \/ CapSetOf(metaIn) \subseteq metaIn.own)
          => metaOut.raised = "none"
       /\ metaOut.raised = "none"
          => \A n \in Names :
               /\ (n \in CapSetOf(metaIn) /\ n \in metaIn.own)
                  => metaOut.ns[n] = OwnDef
               /\ (n \in CapSetOf(metaIn) /\ n \notin metaIn.own)
                  => metaOut.ns[n].kind = "delegator"
               /\ n \notin CapSetOf(metaIn)
                  => metaOut.ns[n] = IF n \in metaIn.own THEN OwnDef
                                     ELSE Unbound

\* A created type that overrides one capability name, leaves another to the
\* binder and defines a name outside the capability set.
C8_Witness ==
    /\ metaDone
    /\ metaOut.raised = "none"
    /\ \E n \in CapSetOf(metaIn) : n \in metaIn.own
    /\ \E n \in CapSetOf(metaIn) : n \notin metaIn.own
    /\ "get_crops" \in metaIn.own

\* C9: get_crops.  With lists of different lengths the call raises
\* ValueError having written nothing, and the batch is unchanged; with lists
\* of equal length it writes destination k from source attribute k for every
\* k, in order, so each destination ends up holding the crops of the source
\* attribute it was last paired with, and no other component changes.
C9_GetCropsContract ==
    call.kind = "get_crops"
    => /\ index = pre.index
       /\ wells = pre.wells
       /\ IF Len(call.src) # Len(call.dst)
          THEN /\ outcome = "ValueError"
               /\ writes = <<>>
               /\ comps = pre.comps
          ELSE /\ outcome = "ok"
               /\ Len(writes) = Len(call.dst)
               /\ \A k \in DOMAIN call.dst :
                    /\ writes[k] = <<call.dst[k], call.src[k]>>
                    /\ (\A m \in DOMAIN call.dst : m > k => call.dst[m] # call.dst[k])
                       => comps[call.dst[k]] =
                            [set |-> TRUE,
                             data |-> [i \in DOMAIN wells |->
                                         [attr |-> call.src[k],
                                          of |-> wells[i].val]]]
               /\ \A d \in DstNames \ Range(call.dst) : comps[d] = pre.comps[d]

\* A call with two sources and one destination on a batch that holds wells
\* and an earlier component.
C9_Witness ==
    /\ call.kind = "get_crops"
    /\ Len(call.src) = 2
    /\ Len(call.dst) = 1
    /\ outcome = "ValueError"
    /\ Len(wells) >= 1
    /\ \E d \in DstNames : pre.comps[d].set

\* C10: strided extraction.  With window_length <= item_length (the smaller
\* of the two image lengths) and step >= 1, the offsets are 0, step,
\* 2*step, ..., they are exactly the multiples of step that are at most
\* item_length - window_length, and each source component gets one window
\* per offset.
C10_CropOffsets ==
    (cDone /\ cKind = "crop" /\ cLength <= Min(cLen[1], cLen[2]))
    => LET bound == Min(cLen[1], cLen[2]) - cLength
       IN  /\ \A j \in DOMAIN cPos : cPos[j] = (j - 1) * cStep
           /\ Range(cPos) = {o \in 0..bound : o % cStep = 0}
           /\ \A c \in 1..2 : Len(cOut[c]) = Len(cPos)

\* A crop whose last offset is item_length - window_length itself, the two
\* images differing in length.
C10_Witness ==
    /\ cDone
    /\ cKind = "crop"
    /\ cLen[1] # cLen[2]
    /\ cStep >= 2
    /\ Len(cPos) >= 2
    /\ cPos[Len(cPos)] = Min(cLen[1], cLen[2]) - cLength

\* C11: random-window bound safety.  With window_length <= item_length (the
\* smaller of the two image lengths) and n_crops >= 1, random_crop returns,
\* draws n_crops offsets, every offset lies in 0..item_length - window_length,
\* and every window it emits is window_length long, so none is cut short by
\* the end of either image.
C11_RandomCropBounds ==
    (cDone /\ cKind = "random_crop" /\ cLength <= Min(cLen[1], cLen[2]))
    => /\ cRaised = "none"
       /\ Len(cPos) = cNCrops
       /\ \A j \in DOMAIN cPos :
            0 <= cPos[j] /\ cPos[j] <= Min(cLen[1], cLen[2]) - cLength
       /\ \A c \in 1..2 :
            /\ Len(cOut[c]) = cNCrops
            /\ \A j \in DOMAIN cOut[c] : Len(cOut[c][j]) = cLength

\* A random_crop over images of different lengths that drew both the first
\* and the last admissible offset.
C11_Witness ==
    /\ cDone
    /\ cKind = "random_crop"
    /\ cLen[1] # cLen[2]
    /\ Len(cPos) >= 2
    /\ cPos[1] = Min(cLen[1], cLen[2]) - cLength
    /\ cPos[2] = 0
    /\ cPos[1] > 0

\* C13: window/offset correspondence.  When crop or random_crop yields two
\* or more windows for an item, window j of each source component is the
\* content of that component at rows offset_j .. offset_j + window_length - 1
\* (row r of an image holds r, rows counted from 1).
C13_WindowCorrespondence ==
    (cDone /\ cRaised = "none" /\ Len(cPos) >= 2)
    => \A c \in 1..2 :
         /\ Len(cOut[c]) = Len(cPos)
         /\ \A j \in DOMAIN cPos :
              cOut[c][j] = [r \in 1..cLength |-> cPos[j] + r]

\* C12: no in-flight writes.  While a dispatch (the worker-initialization
\* dispatch included) still has a task that has not completed, the index,
\* wells and every other component are what they were when the dispatch
\* started: components change only in the step that follows the last task.
C12_NoInFlightWrites ==
    (phase = "running" /\ \E i \in DOMAIN futures : futures[i] = Pending)
    => /\ index = pre.index
       /\ wells = pre.wells
       /\ comps = pre.comps

\* C14: synthesized-operation configuration.  Creating a type binds, for
\* every capability name the body does not define, a delegating operation
\* with _filter_assemble as its post step and with the mode the body's
\* targets mapping gives for the type's name, thread-pool when the mapping
\* lacks the name and also when the body assigns no targets at all.
C14_SynthesizedConfig ==
    metaDone
    => \A n \in CapSetOf(metaIn) \ metaIn.own :
         /\ metaOut.raised = "none"
         /\ metaOut.ns[n] =
              [kind |-> "delegator", init |-> "indices",
               post |-> "_filter_assemble",
               target |-> IF metaIn.hasTargets
                             /\ metaIn.name \in DOMAIN metaIn.targets
                          THEN metaIn.targets[metaIn.name]
                          ELSE "threads"]

\* C15: index snapshot.  When _filter_assemble contracts the batch, the
\* index object the batch referred to when the call started still holds the
\* full original key sequence, and the batch refers to another object, which
\* holds the kept keys in their original order.
C15_IndexSnapshot ==
    (DelegatedDone /\ outcome = "ok" /\ Len(index) < Len(pre.index))
    => /\ indexRef # heldRef
       /\ indexObjs[heldRef] = pre.index
       /\ indexObjs[indexRef] = index
       /\ index = [j \in 1..Cardinality(KeepSet) |-> pre.index[KeptAt(j)]]

C15_Witness ==
    /\ DelegatedDone
    /\ outcome = "ok"
    /\ Len(pre.index) >= 2
    /\ Len(index) = Len(pre.index) - 1
    /\ indexObjs[heldRef] = pre.index
    /\ indexObjs[indexRef] = index
    /\ indexRef # heldRef

\* The positions that took part in a swap between two distinct positions.
SwappedPos ==
    {get_pos(sIndex, sPairs[k][m]) :
        k \in {x \in DOMAIN sPairs : sPairs[x][1] # sPairs[x][2]}, m \in 1..2}

\* How often value v occurs in sequence a.
Count(a, v) == Cardinality({p \in DOMAIN a : a[p] = v})

\* C16: the cross-item shuffle preserves content.  After shuffle_images
\* (default src and dst), whatever partners were drawn, uv holds the same
\* values as before, each as often as before, dl and the index are
\* unchanged, and a position in no pair of two distinct positions keeps its
\* uv value and its label.
C16_ShufflePreserves ==
    sDone
    => /\ Len(sUv) = Len(sPre.uv)
       /\ \A v \in Range(sPre.uv) \cup Range(sUv) : Count(sUv, v) = Count(sPre.uv, v)
       /\ sDl = sPre.dl
       /\ sIndex = sPre.index
       /\ \A p \in DOMAIN sUv \ SwappedPos :
            sUv[p] = sPre.uv[p] /\ sLabels[p] = sPre.labels[p]

\* Two chained swaps: every position of a three-item batch holds another
\* item's uv image.
C16_Witness ==
    /\ sDone
    /\ Len(sIndex) = 3
    /\ Len(sPairs) = 2
    /\ SwappedPos = DOMAIN sUv
    /\ \A p \in DOMAIN sUv : sUv[p] # sPre.uv[p]

\* C17: the cross-item shuffle's labels.  After shuffle_images every
\* position whose uv value is not the one it had before has label 1, and a
\* label differs from the one before only at a position that took part in a
\* swap between two distinct positions.
C17_ShuffleLabels ==
    sDone
    => \A p \in DOMAIN sLabels :
         /\ sUv[p] # sPre.uv[p] => sLabels[p] = 1
         /\ sLabels[p] # sPre.labels[p] => p \in SwappedPos

\* One pair swapped two positions labelled 0, another pair drew a key as its
\* own partner and left its label 0.
C17_Witness ==
    /\ sDone
    /\ \E k \in DOMAIN sPairs :
         /\ sPairs[k][1] = sPairs[k][2]
         /\ sLabels[get_pos(sIndex, sPairs[k][1])] = 0
    /\ \E p \in SwappedPos :
         /\ sPre.labels[p] = 0
         /\ sLabels[p] = 1
         /\ sUv[p] # sPre.uv[p]

====
